---- MODULE Spec2Model ----
(***************************************************************************)
(* Model of the result-extraction, metric and display engine of ansys_vis  *)
(* (src/1109/result_registry.py, metric_registry.py, vis_lab.py,           *)
(* app_ui.py, backend_pyvista.py and their monolithic twin src/main.py).   *)
(*                                                                         *)
(* Meshes are heap objects with identity: heap[id] is the point_data       *)
(* mapping (field name -> array) of mesh id, and vis.subset is a mesh id.  *)
(* An array is a record [shape, v]: shape is <<n>> or <<n, k>> and v holds *)
(* the elements in row-major order.  An element is a record [fin, x]:      *)
(* a finite number x, or NaN / +Inf / -Inf.                                *)
(***************************************************************************)
EXTENDS Integers, Sequences, FiniteSets, TLC

VARIABLES
    handlers,   \* ResultTypes._handlers: insertion-ordered dict, a sequence of [key, val]
    mhandlers,  \* Metrics._handlers: insertion-ordered dict, a sequence of [key, val]
    regLog,     \* history: key -> entry given to the most recent ResultRegistry.register
    mregLog,    \* history: key -> entry given to the most recent MetricRegistry.register
    file,       \* the point_data of the mesh stored in the result file
    heap,       \* the meshes in memory: heap[id] is the point_data of mesh id
    subset,     \* vis.subset: the id of the mesh the Vis_tools object refers to
    made,       \* history: made[id] is the handler whose base.copy() created mesh id
    last,       \* history: the most recent extract_for_plot / extract_for_metrics call
    thr,        \* the two parallel extractions: position, own copy and result of each
    app,        \* the App's Tk variables, widget states and what it handed to its callees
    met,        \* a direct Metrics.compute call: its arguments and its outcome
    bk,         \* a direct PyVistaBackend.show call: its arguments and what it built
    nrm,        \* a direct _safe_norm_if_vector call: its argument and its result
    be,         \* a PyVistaBackend object: open_plotters and the close calls of close_all
    ui          \* a UIBuilder: its configuration, its variables and its widgets

vars == <<handlers, mhandlers, regLog, mregLog, file, heap, subset, made, last, thr, app, met, bk,
          nrm, be, ui>>

(***************************************************************************)
(* Bounds.                                                                 *)
(***************************************************************************)
NPoints == 2
MaxMeshes == 3
MaxLen == 2
MaxPlotters == 1
MaxOpen == 3

(***************************************************************************)
(* Array elements and arrays (numpy.ndarray).                              *)
(***************************************************************************)
F(x) == [fin |-> TRUE, x |-> x]
NaN == [fin |-> FALSE, x |-> 0]
PosInf == [fin |-> FALSE, x |-> 1]
NegInf == [fin |-> FALSE, x |-> -1]

Arr1(v) == [shape |-> <<Len(v)>>, v |-> v]
Arr2(n, k, v) == [shape |-> <<n, k>>, v |-> v]
NoArr == [shape |-> <<0>>, v |-> <<>>]

ndim(arr) == Len(arr.shape)

\* arr[i, j] of a two-dimensional array, i and j counted from 0 as in the source
At(arr, i, j) == arr.v[i * arr.shape[2] + j + 1]

\* the square root of s >= 0: the number itself when s is a perfect square, and
\* otherwise the irrational root, kept as the radicand
Sqrt(s) ==
    IF \E r \in 0..s : r * r = s THEN F(CHOOSE r \in 0..s : r * r = s)
    ELSE [fin |-> TRUE, x |-> s, root |-> TRUE]

RECURSIVE SumSqRow(_, _, _)
SumSqRow(arr, i, j) ==
    IF j < 0 THEN 0 ELSE At(arr, i, j).x * At(arr, i, j).x + SumSqRow(arr, i, j - 1)

\* np.linalg.norm(arr, axis=1): the Euclidean norm of each row
RowNorm(arr, i) ==
    LET cols == 0..(arr.shape[2] - 1) IN
    IF \E j \in cols : At(arr, i, j) = NaN THEN NaN
    ELSE IF \E j \in cols : ~At(arr, i, j).fin THEN PosInf
    ELSE Sqrt(SumSqRow(arr, i, arr.shape[2] - 1))

linalg_norm_axis1(arr) == Arr1([i \in 1..arr.shape[1] |-> RowNorm(arr, i - 1)])

_safe_norm_skip(arr) == arr
\* Python's None where an array is expected
None == [none |-> TRUE]

_safe_norm_any2d(arr) ==
    IF arr = None THEN None
    ELSE IF ndim(arr) = 2 THEN linalg_norm_axis1(arr) ELSE arr
_safe_norm_if_vector(arr) ==
    IF arr = None THEN None
    ELSE IF ndim(arr) = 2 /\ arr.shape[2] > 1 THEN linalg_norm_axis1(arr) ELSE arr

\* arr.ravel(): the elements as a one-dimensional array
ravel(arr) == Arr1(arr.v)

\* arr[:, j]: fails (IndexError) unless arr is two-dimensional with more than j columns
ColumnOk(arr, j) == ndim(arr) = 2 /\ j < arr.shape[2]
Column_first(arr, j) == Arr1([i \in 1..arr.shape[1] |-> At(arr, i - 1, 0)])
Column(arr, j) == Arr1([i \in 1..arr.shape[1] |-> At(arr, i - 1, j)])

(***************************************************************************)
(* The meshes a result file may hold, for a point count n.                 *)
(***************************************************************************)
Disp1(n) == Arr1([i \in 1..n |-> F(i)])
Disp3(n) == Arr2(n, 3, [p \in 1..(3 * n) |->
                 LET i == (p - 1) \div 3 + 1 IN IF (p - 1) % 3 = 0 THEN F(i) ELSE F(2 * i)])
\* rows (i, i, 0): their norms are irrational
Disp3b(n) == Arr2(n, 3, [p \in 1..(3 * n) |->
                 LET i == (p - 1) \div 3 + 1 IN IF (p - 1) % 3 = 2 THEN F(0) ELSE F(i)])
Stress5(n) == Arr2(n, 5, [p \in 1..(5 * n) |->
                 LET i == (p - 1) \div 5 + 1 IN IF (p - 1) % 5 = 4 THEN F(10 + i) ELSE F((p - 1) % 5)])
Stress3(n) == Arr2(n, 3, [p \in 1..(3 * n) |-> F((p - 1) % 3)])
Pred1(n) == Arr1([i \in 1..n |-> F(10 + 2 * i)])
Pred2(n) == Arr2(n, 2, [p \in 1..(2 * n) |-> F(20 + p)])
Sol1(n) == Arr1([i \in 1..n |-> F(7)])

Absent == {<<>>}
FieldChoices(name, arrs) == Absent \cup {(name :> a) : a \in arrs}

Meshes(n) ==
    { d @@ s @@ p @@ o :
        d \in FieldChoices("displacement", {Disp1(n), Disp3(n), Disp3b(n)}),
        s \in FieldChoices("stress", {Stress5(n), Stress3(n)}),
        p \in FieldChoices("von_mises_stress_pred", {Pred1(n), Pred2(n)}),
        o \in FieldChoices("solution", {Sol1(n)}) }

(***************************************************************************)
(* The mesh store and Vis_tools.  A world w is [heap, subset].             *)
(***************************************************************************)
base == 1

\* g = base.copy(): a new mesh g holding an independent duplicate of the fields
copy_alias(w, src) == [w |-> w, g |-> src]
copy(w, src) == [w |-> [w EXCEPT !.heap = Append(w.heap, w.heap[src])], g |-> Len(w.heap) + 1]

\* vis.subset = g
SetSubset_skip(w, g) == w
SetSubset(w, g) == [w EXCEPT !.subset = g]

\* mesh.point_data[name] = arr
SetField(w, id, name, arr) == [w EXCEPT !.heap[id] = (name :> arr) @@ @]

HasField(w, id, name) == name \in DOMAIN w.heap[id]

Step(w, ok, err) == [w |-> w, ok |-> ok, err |-> err]

dis_solution(w) ==
    IF ~HasField(w, w.subset, "displacement") THEN Step(w, FALSE, "FieldNotFound")
    ELSE Step(SetField(w, w.subset, "solution", w.heap[w.subset]["displacement"]), TRUE, "")

stress_solution(w) ==
    IF ~HasField(w, w.subset, "stress") THEN Step(w, FALSE, "FieldNotFound")
    ELSE IF ~ColumnOk(w.heap[w.subset]["stress"], 4) THEN Step(w, FALSE, "IndexError")
    ELSE Step(SetField(w, w.subset, "solution", Column(w.heap[w.subset]["stress"], 4)), TRUE, "")

stress_pr_solution_fallback(w) ==
    IF ~HasField(w, w.subset, "von_mises_stress_pred") THEN stress_solution(w)
    ELSE Step(SetField(w, w.subset, "solution", w.heap[w.subset]["von_mises_stress_pred"]), TRUE, "")
stress_pr_solution(w) ==
    IF ~HasField(w, w.subset, "von_mises_stress_pred") THEN Step(w, FALSE, "FieldNotFound")
    ELSE Step(SetField(w, w.subset, "solution", w.heap[w.subset]["von_mises_stress_pred"]), TRUE, "")

(***************************************************************************)
(* The built-in handlers of result_registry.py.  A handler returns the     *)
(* world it leaves and either its value or the failure it raised.          *)
(***************************************************************************)
PlotOk(w, g, scalars, title) ==
    [w |-> w, ok |-> TRUE, err |-> "", g |-> g, scalars |-> scalars, title |-> title, arr |-> NoArr]
MetricOk(w, arr) ==
    [w |-> w, ok |-> TRUE, err |-> "", g |-> 0, scalars |-> "", title |-> "", arr |-> arr]
Raise(w, err) ==
    [w |-> w, ok |-> FALSE, err |-> err, g |-> 0, scalars |-> "", title |-> "", arr |-> NoArr]

\* the part of each handler after its Vis_tools call: it reads "solution" back
\* from its own copy g (KeyError when g does not hold it) and builds its value
_plot_dis_read(w, g) ==
    IF ~HasField(w, g, "solution") THEN Raise(w, "KeyError")
    ELSE PlotOk(SetField(w, g, "dis_mag", _safe_norm_if_vector(w.heap[g]["solution"])),
                g, "dis_mag", "Displacement (magnitude)")

_metric_dis_read(w, g) ==
    IF ~HasField(w, g, "solution") THEN Raise(w, "KeyError")
    ELSE MetricOk(w, _safe_norm_if_vector(w.heap[g]["solution"]))

_plot_von_read_unset(w, g) ==
    IF ~HasField(w, g, "solution") THEN Raise(w, "KeyError")
    ELSE PlotOk(w, g, "von", "Von Mises stress")

_plot_von_read(w, g) ==
    IF ~HasField(w, g, "solution") THEN Raise(w, "KeyError")
    ELSE PlotOk(SetField(w, g, "von", w.heap[g]["solution"]), g, "von", "Von Mises stress")

_metric_von_read(w, g) ==
    IF ~HasField(w, g, "solution") THEN Raise(w, "KeyError")
    ELSE MetricOk(w, ravel(w.heap[g]["solution"]))

_plot_pred_read(w, g) ==
    IF ~HasField(w, g, "solution") THEN Raise(w, "KeyError")
    ELSE PlotOk(SetField(w, g, "pred", w.heap[g]["solution"]), g, "pred", "Predicted stress")

_metric_pred_read(w, g) ==
    IF ~HasField(w, g, "solution") THEN Raise(w, "KeyError")
    ELSE MetricOk(w, ravel(w.heap[g]["solution"]))

_plot_dis(w0, b) ==
    LET c == copy(w0, b)
        s == dis_solution(SetSubset(c.w, c.g))
    IN  IF ~s.ok THEN Raise(s.w, s.err) ELSE _plot_dis_read(s.w, c.g)

_metric_dis(w0, b) ==
    LET c == copy(w0, b)
        s == dis_solution(SetSubset(c.w, c.g))
    IN  IF ~s.ok THEN Raise(s.w, s.err) ELSE _metric_dis_read(s.w, c.g)

_plot_von(w0, b) ==
    LET c == copy(w0, b)
        s == stress_solution(SetSubset(c.w, c.g))
    IN  IF ~s.ok THEN Raise(s.w, s.err) ELSE _plot_von_read(s.w, c.g)

_metric_von(w0, b) ==
    LET c == copy(w0, b)
        s == stress_solution(SetSubset(c.w, c.g))
    IN  IF ~s.ok THEN Raise(s.w, s.err) ELSE _metric_von_read(s.w, c.g)

_plot_pred(w0, b) ==
    LET c == copy(w0, b)
        s == stress_pr_solution(SetSubset(c.w, c.g))
    IN  IF ~s.ok THEN Raise(s.w, s.err) ELSE _plot_pred_read(s.w, c.g)

_metric_pred(w0, b) ==
    LET c == copy(w0, b)
        s == stress_pr_solution(SetSubset(c.w, c.g))
    IN  IF ~s.ok THEN Raise(s.w, s.err) ELSE _metric_pred_read(s.w, c.g)

PlotFns == {"_plot_dis", "_plot_von", "_plot_pred"}
MetricFns == {"_metric_dis", "_metric_von", "_metric_pred"}

\* calling a registered function object
Call(fn, w, b) ==
    CASE fn = "_plot_dis" -> _plot_dis(w, b)
      [] fn = "_metric_dis" -> _metric_dis(w, b)
      [] fn = "_plot_von" -> _plot_von(w, b)
      [] fn = "_metric_von" -> _metric_von(w, b)
      [] fn = "_plot_pred" -> _plot_pred(w, b)
      [] fn = "_metric_pred" -> _metric_pred(w, b)

\* the field a handler reads through Vis_tools, and the fields it writes
SourceField(fn) ==
    CASE fn \in {"_plot_dis", "_metric_dis"} -> "displacement"
      [] fn \in {"_plot_von", "_metric_von"} -> "stress"
      [] fn \in {"_plot_pred", "_metric_pred"} -> "von_mises_stress_pred"
Written(fn) ==
    CASE fn = "_plot_dis" -> {"solution", "dis_mag"}
      [] fn = "_plot_von" -> {"solution", "von"}
      [] fn = "_plot_pred" -> {"solution", "pred"}
      [] OTHER -> {"solution"}

\* the Vis_tools call of a handler, and the part of the handler after it
Solve(fn, w) ==
    CASE fn \in {"_plot_dis", "_metric_dis"} -> dis_solution(w)
      [] fn \in {"_plot_von", "_metric_von"} -> stress_solution(w)
      [] fn \in {"_plot_pred", "_metric_pred"} -> stress_pr_solution(w)
ReadBack(fn, w, g) ==
    CASE fn = "_plot_dis" -> _plot_dis_read(w, g)
      [] fn = "_metric_dis" -> _metric_dis_read(w, g)
      [] fn = "_plot_von" -> _plot_von_read(w, g)
      [] fn = "_metric_von" -> _metric_von_read(w, g)
      [] fn = "_plot_pred" -> _plot_pred_read(w, g)
      [] fn = "_metric_pred" -> _metric_pred_read(w, g)

(***************************************************************************)
(* Python dict, insertion-ordered: a sequence of [key, val].               *)
(***************************************************************************)
DictHas(d, key) == \E i \in 1..Len(d) : d[i].key = key
DictIndex(d, key) == CHOOSE i \in 1..Len(d) : d[i].key = key
DictGet(d, key) == d[DictIndex(d, key)].val
DictSet_append(d, key, val) == Append(d, [key |-> key, val |-> val])
DictSet(d, key, val) ==
    IF DictHas(d, key) THEN [d EXCEPT ![DictIndex(d, key)].val = val]
    ELSE Append(d, [key |-> key, val |-> val])
DictKeys(d) == [i \in 1..Len(d) |-> d[i].key]

(***************************************************************************)
(* ResultRegistry and MetricRegistry.                                      *)
(***************************************************************************)
ResultEntry(title, plot, metric) == [title |-> title, plot |-> plot, metric |-> metric]
MetricEntry(title, fn) == [title |-> title, fn |-> fn]

ResultRegistry_register(h, key, title, plot, metric) ==
    DictSet(h, key, ResultEntry(title, plot, metric))
ResultRegistry_title(h, key) == DictGet(h, key).title
ResultRegistry_keys(h) == DictKeys(h)
extract_for_plot_special(h, key, w, b) ==
    IF ~DictHas(h, key) \/ key = "ux" THEN Raise(w, "KeyError") ELSE Call(DictGet(h, key).plot, w, b)
extract_for_plot(h, key, w, b) ==
    IF ~DictHas(h, key) THEN Raise(w, "KeyError") ELSE Call(DictGet(h, key).plot, w, b)
extract_for_metrics(h, key, w, b) ==
    IF ~DictHas(h, key) THEN Raise(w, "KeyError") ELSE Call(DictGet(h, key).metric, w, b)

MetricRegistry_register(h, key, title, fn) == DictSet(h, key, MetricEntry(title, fn))
MetricRegistry_title(h, key) == DictGet(h, key).title
MetricRegistry_keys(h) == DictKeys(h)

(***************************************************************************)
(* The metric engine (metric_registry.py).  numpy semantics used by _mse:  *)
(* x & y broadcasts two one-dimensional operands when their lengths are    *)
(* equal or one of them is 1 and raises ValueError otherwise; arr[mask]    *)
(* raises IndexError unless mask has the shape of arr, and yields the      *)
(* selected elements as a one-dimensional array.  The model passes _mse    *)
(* two arrays of equal shape, or two one-dimensional arrays.               *)
(***************************************************************************)
isfinite(arr) == [shape |-> arr.shape, v |-> [i \in 1..Len(arr.v) |-> arr.v[i].fin]]

CanBroadcast(x, y) ==
    \/ x.shape = y.shape
    \/ ndim(x) = 1 /\ ndim(y) = 1 /\ (Len(x.v) = 1 \/ Len(y.v) = 1)

\* x & y for boolean arrays that can be broadcast
And(x, y) ==
    IF x.shape = y.shape
    THEN [shape |-> x.shape, v |-> [i \in 1..Len(x.v) |-> x.v[i] /\ y.v[i]]]
    ELSE IF Len(x.v) = 1
    THEN [shape |-> y.shape, v |-> [i \in 1..Len(y.v) |-> x.v[1] /\ y.v[i]]]
    ELSE [shape |-> x.shape, v |-> [i \in 1..Len(x.v) |-> x.v[i] /\ y.v[1]]]

any_all(mask) == \A i \in 1..Len(mask.v) : mask.v[i]
any(mask) == \E i \in 1..Len(mask.v) : mask.v[i]

RECURSIVE Select(_, _, _)
Select(v, m, i) ==
    IF i > Len(v) THEN <<>>
    ELSE IF m[i] THEN <<v[i]>> \o Select(v, m, i + 1) ELSE Select(v, m, i + 1)

\* arr[mask], for a mask of the shape of arr
Masked_all(arr, mask) == Arr1(arr.v)
Masked(arr, mask) == Arr1(Select(arr.v, mask.v, 1))

RECURSIVE SumSq(_, _, _)
SumSq(x, y, i) ==
    IF i > Len(x) THEN 0
    ELSE (x[i].x - y[i].x) * (x[i].x - y[i].x) + SumSq(x, y, i + 1)
RECURSIVE SumAbs(_, _, _)
SumAbs(x, y, i) ==
    IF i > Len(x) THEN 0
    ELSE (IF x[i].x >= y[i].x THEN x[i].x - y[i].x ELSE y[i].x - x[i].x) + SumAbs(x, y, i + 1)

\* float(np.mean((a - b) ** 2)) of two finite arrays of one shape: the exact
\* mean, as the fraction num / den
mean_abs_diff(a, b) == [num |-> SumAbs(a.v, b.v, 1), den |-> Len(a.v)]
mean_sq_diff(a, b) == [num |-> SumSq(a.v, b.v, 1), den |-> Len(a.v)]

MetricValue(q) == [ok |-> TRUE, err |-> "", num |-> q.num, den |-> q.den]
MetricRaise(err) == [ok |-> FALSE, err |-> err, num |-> 0, den |-> 0]

_mse(a, b) ==
    IF ~CanBroadcast(a, b) THEN MetricRaise("BroadcastError")
    ELSE LET mask == And(isfinite(a), isfinite(b)) IN
         IF ~any(mask) THEN MetricRaise("NoValidData")
         ELSE IF mask.shape # a.shape \/ mask.shape # b.shape THEN MetricRaise("IndexError")
         ELSE LET fa == Masked(a, mask)
                  fb == Masked(b, mask)
              IN  IF fa.shape # fb.shape THEN MetricRaise("ShapeMismatch")
                  ELSE MetricValue(mean_sq_diff(fa, fb))

MetricRegistry_compute(h, key, a, b) ==
    IF ~DictHas(h, key) THEN MetricRaise("KeyError")
    ELSE CASE DictGet(h, key).fn = "_mse" -> _mse(a, b)

\* the registrations made when result_registry.py is imported
ResultTypes0 ==
    ResultRegistry_register(
        ResultRegistry_register(
            ResultRegistry_register(<<>>, "dis", "Displacement", "_plot_dis", "_metric_dis"),
            "von", "Von Mises stress", "_plot_von", "_metric_von"),
        "pred", "Predicted stress", "_plot_pred", "_metric_pred")
\* the registration made when metric_registry.py is imported
Metrics0 == MetricRegistry_register(<<>>, "mse", "Mean Squared Error", "_mse")

(***************************************************************************)
(* PyVistaBackend (backend_pyvista.py).  A payload is [has, mesh, scalars, *)
(* title]: the point_data of the mesh copy, the scalar field to colour by  *)
(* and the title; has is FALSE for the payload None.                       *)
(***************************************************************************)
Payload(mesh, scalars, title) == [has |-> TRUE, mesh |-> mesh, scalars |-> scalars, title |-> title]
NonePayload == [has |-> FALSE, mesh |-> <<>>, scalars |-> "", title |-> ""]

\* the order of the extended reals on elements other than NaN
Less(x, y) ==
    IF x = NegInf THEN y # NegInf
    ELSE IF x = PosInf THEN FALSE
    ELSE y = PosInf \/ (y.fin /\ x.x < y.x)

\* np.nanmin / np.nanmax of a sequence of elements: ValueError on an empty one,
\* NaN when every element is NaN, else the least / greatest element that is no NaN
NotNaN(v) == {v[i] : i \in 1..Len(v)} \ {NaN}
nanmin(v) ==
    IF Len(v) = 0 THEN [ok |-> FALSE, x |-> NaN]
    ELSE IF NotNaN(v) = {} THEN [ok |-> TRUE, x |-> NaN]
    ELSE [ok |-> TRUE, x |-> CHOOSE m \in NotNaN(v) : \A y \in NotNaN(v) : ~Less(y, m)]
nanmax(v) ==
    IF Len(v) = 0 THEN [ok |-> FALSE, x |-> NaN]
    ELSE IF NotNaN(v) = {} THEN [ok |-> TRUE, x |-> NaN]
    ELSE [ok |-> TRUE, x |-> CHOOSE m \in NotNaN(v) : \A y \in NotNaN(v) : ~Less(m, y)]

NoClim == [raised |-> FALSE, set |-> FALSE, vmin |-> F(0), vmax |-> F(0)]
ClimRaised == [raised |-> TRUE, set |-> FALSE, vmin |-> F(0), vmax |-> F(0)]

\* the same body with vmax >= vmin as its test
ClimTry_nonstrict(a, b) ==
    LET la == nanmin(a.v)
        lb == nanmin(b.v)
        ha == nanmax(a.v)
        hb == nanmax(b.v)
    IN  IF ~la.ok \/ ~lb.ok \/ ~ha.ok \/ ~hb.ok THEN ClimRaised
        ELSE LET vmin == nanmin(<<la.x, lb.x>>).x
                 vmax == nanmax(<<ha.x, hb.x>>).x
             IN  IF vmin.fin /\ vmax.fin /\ vmax.x >= vmin.x
                 THEN [raised |-> FALSE, set |-> TRUE, vmin |-> vmin, vmax |-> vmax]
                 ELSE NoClim

\* the body of the try block of show: it raises when np.nanmin / np.nanmax does,
\* and sets clim only for a finite vmin below a finite vmax
ClimTry(a, b) ==
    LET la == nanmin(a.v)
        lb == nanmin(b.v)
        ha == nanmax(a.v)
        hb == nanmax(b.v)
    IN  IF ~la.ok \/ ~lb.ok \/ ~ha.ok \/ ~hb.ok THEN ClimRaised
        ELSE LET vmin == nanmin(<<la.x, lb.x>>).x
                 vmax == nanmax(<<ha.x, hb.x>>).x
             IN  IF vmin.fin /\ vmax.fin /\ vmax.x > vmin.x
                 THEN [raised |-> FALSE, set |-> TRUE, vmin |-> vmin, vmax |-> vmax]
                 ELSE NoClim

\* the shared colour range of two arrays: the try block of show with its except
\* clause, which turns every failure into clim = None
SharedClim_uncaught(a, b) == ClimTry(a, b)
SharedClim(a, b) ==
    IF ClimTry(a, b).raised THEN NoClim ELSE ClimTry(a, b)

Pane(col, kind, scalars, title, clim) ==
    [col |-> col, kind |-> kind, scalars |-> scalars, title |-> title, clim |-> clim,
     classified |-> FALSE, load_pts |-> {}, fixed_pts |-> {}]

\* the tolerance 1e-10 of the boundary classification; node features are held in
\* units of 1e-11
tol == 10

\* np.isclose(x, 0.0, atol=tol): |x| <= atol, false for NaN and the infinities
isclose0_strict(x) == x.fin /\ x.x < tol /\ -x.x < tol
isclose0(x) == x.fin /\ x.x <= tol /\ -x.x <= tol

\* is_load and is_fixed of row i (counted from 0) of the feature matrix
is_load(feats, i) == \E j \in 3..5 : ~isclose0(At(feats, i, j))
is_fixed(feats, i) == \A j \in 6..8 : isclose0(At(feats, i, j))

\* the guard of _add_boundary_subplot: the field is there, 2-D, with 9 columns
HasFeatures_morethan9(grid) ==
    /\ "node_features" \in DOMAIN grid
    /\ ndim(grid["node_features"]) = 2
    /\ grid["node_features"].shape[2] > 9
HasFeatures(grid) ==
    /\ "node_features" \in DOMAIN grid
    /\ ndim(grid["node_features"]) = 2
    /\ grid["node_features"].shape[2] >= 9

_add_boundary_subplot_shifted(grid, col) ==
    Pane(col + 1, "boundary", "", "Boundary (insufficient data)", NoClim)

\* _add_boundary_subplot: the pane it selects, the text it adds, and the points
\* (row indices of grid.points) it marks as loaded and as fixed
_add_boundary_subplot(grid, col) ==
    IF ~HasFeatures(grid)
    THEN Pane(col, "boundary", "", "Boundary (insufficient data)", NoClim)
    ELSE LET feats == grid["node_features"]
             rows == 0..(feats.shape[1] - 1)
         IN  [Pane(col, "boundary", "", "Boundary", NoClim) EXCEPT
                 !.classified = TRUE,
                 !.load_pts = {i \in rows : is_load(feats, i)},
                 !.fixed_pts = {i \in rows : is_fixed(feats, i)}]

NoPlotter == [cols |-> 0, panes |-> <<>>]

\* the test of show under which it computes a shared colour range
Locked_always(lock_clim, right_payload) == right_payload.has
Locked(lock_clim, right_payload) == lock_clim /\ right_payload.has

\* PyVistaBackend.show: the plotter it builds, and open_plotters with it appended
\* (open_plotters keeps each plotter by its shape); raised names the exception
\* that leaves show, "" when it returns
show(open_plotters, left_payload, right_payload, base_grid, show_bc, lock_clim) ==
    LET cols == 1 + (IF right_payload.has THEN 1 ELSE 0) + (IF show_bc THEN 1 ELSE 0)
        locked == Locked(lock_clim, right_payload)
        found == /\ left_payload.scalars \in DOMAIN left_payload.mesh
                 /\ right_payload.scalars \in DOMAIN right_payload.mesh
        clim == IF locked /\ found
                THEN SharedClim(left_payload.mesh[left_payload.scalars],
                                right_payload.mesh[right_payload.scalars])
                ELSE NoClim
        left == <<Pane(0, "left", left_payload.scalars, left_payload.title, clim)>>
        right == IF right_payload.has
                 THEN <<Pane(1, "right", right_payload.scalars, right_payload.title, clim)>>
                 ELSE <<>>
        cur == IF right_payload.has THEN 1 ELSE 0
        bc == IF show_bc THEN <<_add_boundary_subplot(base_grid, cur + 1)>> ELSE <<>>
        plotter == [cols |-> cols, panes |-> left \o right \o bc]
    IN  IF locked /\ ~found
        THEN [raised |-> "KeyError", p |-> NoPlotter, open_plotters |-> open_plotters]
        ELSE IF clim.raised
        THEN [raised |-> "ValueError", p |-> NoPlotter, open_plotters |-> open_plotters]
        ELSE [raised |-> "", p |-> plotter, open_plotters |-> Append(open_plotters, [cols |-> cols])]

\* the while loop of close_all: the last plotter is popped and closed, and an
\* exception of its close() is swallowed; raises[i] tells whether the close() of
\* the plotter at position i raises, calls is the log of the close() calls
RECURSIVE close_loop_abort(_, _, _)
close_loop_abort(open_plotters, raises, calls) ==
    IF Len(open_plotters) = 0 THEN [open_plotters |-> open_plotters, calls |-> calls]
    ELSE LET n == Len(open_plotters)
             rest == SubSeq(open_plotters, 1, n - 1)
             logged == Append(calls, [p |-> n, raised |-> raises[n]])
         IN  IF raises[n] THEN [open_plotters |-> rest, calls |-> logged]
             ELSE close_loop_abort(rest, raises, logged)
RECURSIVE close_loop(_, _, _)
close_loop(open_plotters, raises, calls) ==
    IF Len(open_plotters) = 0 THEN [open_plotters |-> open_plotters, calls |-> calls]
    ELSE LET n == Len(open_plotters)
         IN  close_loop(SubSeq(open_plotters, 1, n - 1), raises,
                        Append(calls, [p |-> n, raised |-> raises[n]]))

\* PyVistaBackend.close_all: what it leaves in open_plotters, and its close() calls
close_all_abort(open_plotters, raises) == close_loop_abort(open_plotters, raises, <<>>)
close_all(open_plotters, raises) == close_loop(open_plotters, raises, <<>>)

(***************************************************************************)
(* Vis_tools(path) and the files of the model: mesh.vtk holds the mesh     *)
(* `file`, job.rst is an ANSYS result whose reader supplies displacement   *)
(* and stress, notes.txt has an unsupported extension, gone.vtk is absent. *)
(***************************************************************************)
Paths == {"", " ", "gone.vtk", "mesh.vtk", "job.rst", "notes.txt"}
strip(path) == IF path = " " THEN "" ELSE path
exists(path) == path \in {"mesh.vtk", "job.rst", "notes.txt"}
ext(path) ==
    CASE path \in {"mesh.vtk", "gone.vtk"} -> ".vtk"
      [] path = "job.rst" -> ".rst"
      [] path = "notes.txt" -> ".txt"
      [] OTHER -> ""
RstMesh == ("displacement" :> Disp3(NPoints)) @@ ("stress" :> Stress5(NPoints))

Vis_tools(path, vtk) ==
    IF ext(path) = ".rst" THEN [ok |-> TRUE, err |-> "", subset |-> RstMesh]
    ELSE IF ext(path) \in {".vtu", ".vtk"} THEN [ok |-> TRUE, err |-> "", subset |-> vtk]
    ELSE [ok |-> FALSE, err |-> "ValueError", subset |-> <<>>]

(***************************************************************************)
(* The App (app_ui.py).                                                    *)
(***************************************************************************)
DISPLAY_CHOICES ==
    << <<"Displacement", "dis">>, <<"Von Mises stress", "von">>, <<"Predicted stress", "pred">> >>
METRIC_CHOICES == << <<"MSE", "mse">> >>
DisplayNames == {DISPLAY_CHOICES[i][1] : i \in 1..Len(DISPLAY_CHOICES)}

Lookup(choices, name) ==
    IF \E i \in 1..Len(choices) : choices[i][1] = name
    THEN choices[CHOOSE i \in 1..Len(choices) :
                     choices[i][1] = name /\ \A j \in 1..(i - 1) : choices[j][1] # name][2]
    ELSE choices[1][2]
_display_to_key(name) == Lookup(DISPLAY_CHOICES, name)
_metric_display_to_key(name) == Lookup(METRIC_CHOICES, name)


\* a messagebox call, and the text of the result label
Box(kind, title) == [kind |-> kind, title |-> title]
NoBox == Box("", "")
Label(kind, micros, sa, sb) == [kind |-> kind, micros |-> micros, sa |-> sa, sb |-> sb]
Dash == Label("dash", 0, <<>>, <<>>)

\* f'{val:.6f}': the value rounded to six decimals, in millionths
Format6(q) == (2 * 1000000 * q.num + q.den) \div (2 * q.den)

NoEvent ==
    [h |-> "", box |-> NoBox, plotter |-> NoPlotter, loaded |-> <<>>, left_key |-> "", right_key |-> "", dual |-> FALSE,
     extracted |-> FALSE, sa |-> <<>>, sb |-> <<>>, computed |-> FALSE,
     showed |-> FALSE, left |-> NonePayload, right |-> NonePayload]

\* the try block of _on_calc_metric: the result label, the error dialog and what it called
CalcNoShapeCheck(a, path, left_key, right_key, metric_key) ==
    LET failed == [a EXCEPT !.mse_var = Label("failed", 0, <<>>, <<>>)]
        vis == Vis_tools(path, file)
        w0 == [heap |-> <<vis.subset>>, subset |-> base]
        ra == extract_for_metrics(handlers, left_key, w0, base)
        rb == extract_for_metrics(handlers, right_key, ra.w, base)
        val == MetricRegistry_compute(mhandlers, metric_key, ra.arr, rb.arr)
        ev == [NoEvent EXCEPT !.h = "calc", !.left_key = left_key, !.right_key = right_key,
                              !.dual = a.dual_var]
        boxed(e) == [e EXCEPT !.box = Box("error", "metric failed")]
    IN  IF ~vis.ok THEN [failed EXCEPT !.ev = boxed(ev)]
        ELSE IF ~ra.ok \/ ~rb.ok
        THEN [failed EXCEPT !.ev = boxed([ev EXCEPT !.loaded = vis.subset])]
        ELSE LET got == [ev EXCEPT !.loaded = vis.subset, !.extracted = TRUE,
                                   !.sa = ra.arr.shape, !.sb = rb.arr.shape, !.computed = TRUE]
             IN  IF ~val.ok THEN [failed EXCEPT !.ev = boxed(got)]
                 ELSE [a EXCEPT !.mse_var = Label("value", Format6(val), <<>>, <<>>), !.ev = got]

CalcTry(a, path, left_key, right_key, metric_key) ==
    LET failed == [a EXCEPT !.mse_var = Label("failed", 0, <<>>, <<>>)]
        vis == Vis_tools(path, file)
        w0 == [heap |-> <<vis.subset>>, subset |-> base]
        ra == extract_for_metrics(handlers, left_key, w0, base)
        rb == extract_for_metrics(handlers, right_key, ra.w, base)
        val == MetricRegistry_compute(mhandlers, metric_key, ra.arr, rb.arr)
        ev == [NoEvent EXCEPT !.h = "calc", !.left_key = left_key, !.right_key = right_key,
                              !.dual = a.dual_var]
        boxed(e) == [e EXCEPT !.box = Box("error", "metric failed")]
    IN  IF ~vis.ok THEN [failed EXCEPT !.ev = boxed(ev)]
        ELSE IF ~ra.ok \/ ~rb.ok
        THEN [failed EXCEPT !.ev = boxed([ev EXCEPT !.loaded = vis.subset])]
        ELSE LET got == [ev EXCEPT !.loaded = vis.subset, !.extracted = TRUE,
                                   !.sa = ra.arr.shape, !.sb = rb.arr.shape]
             IN  IF ra.arr.shape # rb.arr.shape
                 THEN [a EXCEPT !.mse_var = Label("mismatch", 0, ra.arr.shape, rb.arr.shape),
                                !.ev = got]
                 ELSE IF ~val.ok THEN [failed EXCEPT !.ev = boxed([got EXCEPT !.computed = TRUE])]
                 ELSE [a EXCEPT !.mse_var = Label("value", Format6(val), <<>>, <<>>),
                                !.ev = [got EXCEPT !.computed = TRUE]]

_on_calc_metric(a) ==
    LET path == strip(a.file_var)
        quit == [NoEvent EXCEPT !.h = "calc", !.dual = a.dual_var]
        said(kind, title) == [a EXCEPT !.ev = [quit EXCEPT !.box = Box(kind, title)]]
    IN  IF ~a.dual_var THEN said("info", "hint")
        ELSE IF path = "" THEN said("warning", "no file")
        ELSE IF ~exists(path) THEN said("error", "file not found")
        ELSE CalcTry(a, path, _display_to_key(a.left_var), _display_to_key(a.right_var),
                     _metric_display_to_key(a.metric_var))

_on_start(a) ==
    LET path == strip(a.file_var)
        left_key == _display_to_key(a.left_var)
        right_key == _display_to_key(a.right_var)
        quit == [NoEvent EXCEPT !.h = "start", !.dual = a.dual_var,
                                !.left_key = left_key, !.right_key = right_key]
        vis == Vis_tools(path, file)
        w0 == [heap |-> <<vis.subset>>, subset |-> base]
        rl == extract_for_plot(handlers, left_key, w0, base)
        rr == extract_for_plot(handlers, right_key, rl.w, base)
        left_payload == Payload(rl.w.heap[rl.g], rl.scalars, rl.title)
        right_payload == IF a.dual_var /\ rr.ok
                         THEN Payload(rr.w.heap[rr.g], rr.scalars, rr.title) ELSE NonePayload
        shown == show(a.open_plotters, left_payload, right_payload, vis.subset,
                      a.show_bc_var, a.lock_clim_var)
        said(kind, title) == [a EXCEPT !.ev = [quit EXCEPT !.box = Box(kind, title)]]
    IN  IF path = "" THEN said("warning", "no file")
        ELSE IF ~exists(path) THEN said("error", "file not found")
        ELSE IF ~vis.ok THEN said("error", "load failed")
        ELSE IF ~rl.ok
        THEN [a EXCEPT !.ev = [quit EXCEPT !.box = Box("error", "left view failed"),
                                           !.loaded = vis.subset]]
        ELSE [a EXCEPT !.open_plotters = shown.open_plotters,
                       !.ev = [quit EXCEPT !.box = IF a.dual_var /\ ~rr.ok
                                                   THEN Box("warning", "right view failed")
                                                   ELSE NoBox,
                                           !.plotter = shown.p,
                                           !.loaded = vis.subset, !.showed = TRUE,
                                           !.left = left_payload, !.right = right_payload]]

_update_dual_state_keep(a) ==
    [a EXCEPT !.combo_right = IF a.dual_var THEN "readonly" ELSE "disabled"]
_update_dual_state(a) ==
    [a EXCEPT !.combo_right = IF a.dual_var THEN "readonly" ELSE "disabled",
              !.mse_var = IF ~a.dual_var THEN Dash ELSE @]

\* the App after __init__ and _build_ui
AppInit ==
    _update_dual_state(
        [file_var |-> "", left_var |-> DISPLAY_CHOICES[2][1], right_var |-> DISPLAY_CHOICES[3][1],
         dual_var |-> TRUE, lock_clim_var |-> TRUE, show_bc_var |-> TRUE,
         metric_var |-> METRIC_CHOICES[1][1], combo_right |-> "readonly", mse_var |-> Dash,
         open_plotters |-> <<>>, ev |-> NoEvent])

(***************************************************************************)
(* UIBuilder (ui_builder.py).  A str is a sequence of characters, so that  *)
(* the parsing of a disable_if condition is modelled as the code does it.  *)
(* A configuration item is [type, id, default, cond, children]; NoStr for  *)
(* id or cond stands for a missing key.  A Tk variable holds a value       *)
(* [t, v] of type bool, str or int.                                        *)
(***************************************************************************)
NoStr == <<>>
NOT_ == <<"n", "o", "t", " ">>

\* s.strip()
RECURSIVE lstrip(_)
lstrip(s) == IF Len(s) > 0 /\ s[1] = " " THEN lstrip(Tail(s)) ELSE s
RECURSIVE rstrip(_)
rstrip(s) == IF Len(s) > 0 /\ s[Len(s)] = " " THEN rstrip(SubSeq(s, 1, Len(s) - 1)) ELSE s
str_strip(s) == rstrip(lstrip(s))

\* s.startswith(prefix)
startswith(s, prefix) == Len(s) >= Len(prefix) /\ SubSeq(s, 1, Len(prefix)) = prefix

\* s.replace(old, ""): every occurrence of old, scanned from the left, is removed
RECURSIVE replace(_, _)
replace(s, old) ==
    IF Len(s) = 0 THEN s
    ELSE IF startswith(s, old) THEN replace(SubSeq(s, Len(old) + 1, Len(s)), old)
    ELSE <<s[1]>> \o replace(Tail(s), old)

BoolVal(b) == [t |-> "bool", b |-> b]
StrVal(s) == [t |-> "str", s |-> s]
IntVal(n) == [t |-> "int", n |-> n]
\* the truth value Python gives a value in a condition
Truthy(val) ==
    CASE val.t = "bool" -> val.b
      [] val.t = "str" -> val.s # ""
      [] val.t = "int" -> val.n # 0

Item(type, id, default, cond, children) ==
    [type |-> type, id |-> id, default |-> default, cond |-> cond, children |-> children]

WidgetTypes == {"label", "combobox", "checkbox", "spinbox", "entry", "button"}

\* the Tk variable a widget builder creates, for the types that create one
VarOf(item) ==
    CASE item.type = "combobox" -> StrVal("first")
      [] item.type = "checkbox" -> item.default
      [] item.type = "spinbox" -> item.default
      [] item.type = "entry" -> item.default

\* _build_single_widget with the builder of the item's type
_build_single_widget(u, item) ==
    IF item.type \notin WidgetTypes THEN u
    ELSE LET made_var == IF item.type \in {"combobox", "checkbox", "spinbox", "entry"}
                         THEN [u EXCEPT !.vars = (item.id :> VarOf(item)) @@ @]
                         ELSE u
             w == [type |-> item.type,
                   state |-> IF item.type = "combobox" THEN "readonly" ELSE "normal"]
         IN  IF item.id # NoStr
             THEN [made_var EXCEPT !.widgets = (item.id :> w) @@ @]
             ELSE made_var

\* _build_item: a row or a section builds its children, any other item one widget
RECURSIVE _build_items(_, _)
_build_item(u, item) ==
    IF item.type \in {"row", "section"} THEN _build_items(u, item.children)
    ELSE _build_single_widget(u, item)
_build_items(u, items) ==
    IF Len(items) = 0 THEN u ELSE _build_items(_build_item(u, Head(items)), Tail(items))

\* update_state of one binding: it configures the state of the target widget
update_state(u, tr) ==
    LET val == u.vars[tr.var]
        disable == IF ~tr.negated THEN Truthy(val) ELSE ~Truthy(val)
        state == IF u.widgets[tr.target].type = "combobox"
                 THEN (IF disable THEN "disabled" ELSE "readonly")
                 ELSE (IF disable THEN "disabled" ELSE "normal")
    IN  [u EXCEPT !.widgets[tr.target].state = state]

\* var_name = cond.replace("not ", "").strip()
var_name(cond) == str_strip(replace(cond, NOT_))

\* _bind_condition: the children first, then the item itself
RECURSIVE _bind_conditions(_, _)
_bind_condition(u, item) ==
    LET u1 == _bind_conditions(u, item.children)
        negated == startswith(str_strip(item.cond), NOT_)
        tr == [var |-> var_name(item.cond), target |-> item.id, negated |-> negated]
    IN  IF item.cond = NoStr THEN u1
        ELSE IF item.id = NoStr THEN u1
        ELSE IF item.id \notin DOMAIN u1.widgets THEN u1
        ELSE IF tr.var \notin DOMAIN u1.vars THEN u1
        ELSE update_state([u1 EXCEPT !.traces = Append(@, tr)], tr)
_bind_conditions(u, items) ==
    IF Len(items) = 0 THEN u ELSE _bind_conditions(_bind_condition(u, Head(items)), Tail(items))

\* UIBuilder.__init__: _build_ui and then _apply_dynamic_bindings
UIBuilder(config) ==
    LET u0 == [pc |-> "built", config |-> config, vars |-> <<>>, widgets |-> <<>>, traces |-> <<>>]
    IN  _bind_conditions(_build_items(u0, config), config)

\* control_var.set(val): the value is written and every write trace of the
\* variable runs, in the order of registration
RECURSIVE run_traces(_, _, _)
run_traces(u, name, i) ==
    IF i > Len(u.traces) THEN u
    ELSE IF u.traces[i].var = name THEN run_traces(update_state(u, u.traces[i]), name, i + 1)
    ELSE run_traces(u, name, i + 1)
var_set(u, name, val) == run_traces([u EXCEPT !.vars[name] = val], name, 1)

(***************************************************************************)
(* State after start-up: both registries hold their built-in entries, the  *)
(* result file is loaded into the base mesh and vis.subset refers to it.   *)
(***************************************************************************)
LastNone ==
    [op |-> "none", key |-> "", fn |-> "", ok |-> FALSE, err |-> "", g |-> 0,
     scalars |-> "", title |-> "", arr |-> NoArr, pre |-> 0, heap0 |-> 0]

Thr0 == [t \in {1, 2} |-> [pc |-> "idle", fn |-> "", g |-> 0]]
App0 == AppInit
Met0 == [pc |-> "idle", a |-> NoArr, b |-> NoArr, res |-> MetricRaise("")]
Nrm0 == [pc |-> "idle", arr |-> None, res |-> None]
NoShown == [raised |-> "", p |-> NoPlotter, open_plotters |-> <<>>]
Be0 == [pc |-> "idle", open_plotters |-> <<>>, raises |-> <<>>, hist |-> <<>>,
        calls |-> <<>>, before |-> 0]
Ui0 == [pc |-> "idle", config |-> <<>>, vars |-> <<>>, widgets |-> <<>>, traces |-> <<>>]
Bk0 == [pc |-> "idle", left |-> NonePayload, right |-> NonePayload, grid |-> <<>>,
        show_bc |-> FALSE, lock_clim |-> FALSE, res |-> NoShown]

InitRegistries ==
    /\ handlers = ResultTypes0
    /\ mhandlers = Metrics0
    /\ regLog = ("dis" :> ResultEntry("Displacement", "_plot_dis", "_metric_dis"))
                @@ ("von" :> ResultEntry("Von Mises stress", "_plot_von", "_metric_von"))
                @@ ("pred" :> ResultEntry("Predicted stress", "_plot_pred", "_metric_pred"))
    /\ mregLog = ("mse" :> MetricEntry("Mean Squared Error", "_mse"))

InitMesh ==
    /\ file \in Meshes(NPoints)
    /\ heap = <<file>>
    /\ subset = base
    /\ made = <<"load">>
    /\ nrm = Nrm0
    /\ be = Be0
    /\ ui = Ui0
    /\ last = LastNone

Init ==
    /\ InitRegistries
    /\ InitMesh
    /\ thr = Thr0
    /\ app = App0
    /\ met = Met0
    /\ bk = Bk0

(***************************************************************************)
(* Registry operations.                                                    *)
(***************************************************************************)
Register(key, title, plot, metric) ==
    /\ handlers' = ResultRegistry_register(handlers, key, title, plot, metric)
    /\ regLog' = (key :> ResultEntry(title, plot, metric)) @@ regLog
    /\ UNCHANGED <<mhandlers, mregLog, file, heap, subset, made, last, thr, app, met, bk, nrm, be, ui>>

MRegister(key, title, fn) ==
    /\ mhandlers' = MetricRegistry_register(mhandlers, key, title, fn)
    /\ mregLog' = (key :> MetricEntry(title, fn)) @@ mregLog
    /\ UNCHANGED <<handlers, regLog, file, heap, subset, made, last, thr, app, met, bk, nrm, be, ui>>

(***************************************************************************)
(* One extraction through the registry, against the base mesh and the one  *)
(* Vis_tools object, as App._on_start and App._on_calc_metric issue them.  *)
(***************************************************************************)
World == [heap |-> heap, subset |-> subset]
Registered == {handlers[i].key : i \in 1..Len(handlers)}

Extracted(op, key, fn, r) ==
    /\ heap' = r.w.heap
    /\ subset' = r.w.subset
    /\ made' = IF Len(r.w.heap) > Len(heap) THEN Append(made, fn) ELSE made
    /\ last' = [op |-> op, key |-> key, fn |-> fn, ok |-> r.ok, err |-> r.err, g |-> r.g,
                scalars |-> r.scalars, title |-> r.title, arr |-> r.arr,
                pre |-> subset, heap0 |-> Len(heap)]
    /\ UNCHANGED <<handlers, mhandlers, regLog, mregLog, file, thr, app, met, bk, nrm, be, ui>>

ExtractForPlot(key) ==
    /\ Len(heap) < MaxMeshes
    /\ key \in Registered
    /\ Extracted("plot", key, DictGet(handlers, key).plot,
                 extract_for_plot(handlers, key, World, base))

ExtractForMetrics(key) ==
    /\ Len(heap) < MaxMeshes
    /\ key \in Registered
    /\ Extracted("metric", key, DictGet(handlers, key).metric,
                 extract_for_metrics(handlers, key, World, base))

Keys == {"dis", "von", "pred", "ux"}
BuiltinEntries ==
    { ResultEntry("Displacement", "_plot_dis", "_metric_dis"),
      ResultEntry("Von Mises stress", "_plot_von", "_metric_von"),
      ResultEntry("Predicted stress", "_plot_pred", "_metric_pred") }

Next ==
    \/ \E e \in BuiltinEntries : Register("ux", e.title, e.plot, e.metric)
    \/ \E key \in Keys : ExtractForPlot(key)
    \/ \E key \in Keys : ExtractForMetrics(key)

Spec == Init /\ [][Next]_vars

(***************************************************************************)
(* The registries alone: any sequence of register calls, on built-in keys  *)
(* and on new ones.                                                        *)
(***************************************************************************)
RegKeys == {"dis", "ux", "uy"}
RegEntries == BuiltinEntries \cup {ResultEntry("Ux", "_plot_dis", "_metric_von")}
MetricKeys == {"mse", "rmse"}
MetricTitles == {"Mean Squared Error", "Root MSE"}

InitReg ==
    /\ InitRegistries
    /\ file = ("displacement" :> Disp3(NPoints))
    /\ heap = <<file>>
    /\ subset = base
    /\ made = <<"load">>
    /\ nrm = Nrm0
    /\ be = Be0
    /\ ui = Ui0
    /\ last = LastNone
    /\ thr = Thr0
    /\ app = App0
    /\ met = Met0
    /\ bk = Bk0

NextReg ==
    \/ \E key \in RegKeys, e \in RegEntries : Register(key, e.title, e.plot, e.metric)
    \/ \E key \in MetricKeys, title \in MetricTitles : MRegister(key, title, "_mse")

SpecReg == InitReg /\ [][NextReg]_vars

(***************************************************************************)
(* Two extractions run in parallel against the same base mesh and the same *)
(* Vis_tools object.  Each is a thread running one handler; the threads    *)
(* interleave between the handler's statements: g = base.copy(),           *)
(* vis.subset = g, the Vis_tools call, and the read of g.point_data.       *)
(***************************************************************************)
Threads == {1, 2}

\* what a caller sees of an extraction: its failure, or its value with the
\* scalar field of the mesh it returned
Outcome(r) ==
    [ok |-> r.ok, err |-> r.err, scalars |-> r.scalars, title |-> r.title, arr |-> r.arr,
     data |-> IF r.ok /\ r.g # 0 THEN r.w.heap[r.g][r.scalars] ELSE NoArr]
NoOutcome ==
    [ok |-> FALSE, err |-> "", scalars |-> "", title |-> "", arr |-> NoArr, data |-> NoArr]

\* the outcome of handler fn when it runs alone on the freshly loaded mesh
Alone(fn) == Outcome(Call(fn, [heap |-> <<file>>, subset |-> base], base))

InitPar ==
    /\ InitRegistries
    /\ InitMesh
    /\ thr \in [Threads -> {[pc |-> "copy", fn |-> fn, g |-> 0, out |-> NoOutcome] :
                              fn \in PlotFns \cup MetricFns}]
    /\ app = App0
    /\ met = Met0
    /\ bk = Bk0

TCopy(t) ==
    /\ thr[t].pc = "copy"
    /\ LET c == copy(World, base)
       IN  /\ heap' = c.w.heap
           /\ made' = Append(made, thr[t].fn)
           /\ thr' = [thr EXCEPT ![t].pc = "assign", ![t].g = c.g]
    /\ UNCHANGED <<handlers, mhandlers, regLog, mregLog, file, subset, last, app, met, bk, nrm, be, ui>>

TAssign(t) ==
    /\ thr[t].pc = "assign"
    /\ subset' = SetSubset(World, thr[t].g).subset
    /\ thr' = [thr EXCEPT ![t].pc = "solve"]
    /\ UNCHANGED <<handlers, mhandlers, regLog, mregLog, file, heap, made, last, app, met, bk, nrm, be, ui>>

TSolve(t) ==
    /\ thr[t].pc = "solve"
    /\ LET s == Solve(thr[t].fn, World)
       IN  /\ heap' = s.w.heap
           /\ thr' = IF s.ok THEN [thr EXCEPT ![t].pc = "read"]
                     ELSE [thr EXCEPT ![t].pc = "done", ![t].out = Outcome(Raise(s.w, s.err))]
    /\ UNCHANGED <<handlers, mhandlers, regLog, mregLog, file, subset, made, last, app, met, bk, nrm, be, ui>>

TRead(t) ==
    /\ thr[t].pc = "read"
    /\ LET r == ReadBack(thr[t].fn, World, thr[t].g)
       IN  /\ heap' = r.w.heap
           /\ thr' = [thr EXCEPT ![t].pc = "done", ![t].out = Outcome(r)]
    /\ UNCHANGED <<handlers, mhandlers, regLog, mregLog, file, subset, made, last, app, met, bk, nrm, be, ui>>

NextPar == \E t \in Threads : TCopy(t) \/ TAssign(t) \/ TSolve(t) \/ TRead(t)

SpecPar == InitPar /\ [][NextPar]_vars

(***************************************************************************)
(* Metrics.compute("mse", a, b) called directly on two one-dimensional     *)
(* arrays of any lengths up to MaxLen.                                     *)
(***************************************************************************)
Elements == {F(0), F(1), F(3), NaN, PosInf, NegInf}
Arrays1(n) == UNION {{Arr1(v) : v \in [1..k -> Elements]} : k \in 0..n}

InitMse ==
    /\ InitRegistries
    /\ file = <<>>
    /\ heap = <<file>>
    /\ subset = base
    /\ made = <<"load">>
    /\ nrm = Nrm0
    /\ be = Be0
    /\ ui = Ui0
    /\ last = LastNone
    /\ thr = Thr0
    /\ app = App0
    /\ met \in {[pc |-> "call", a |-> a, b |-> b, res |-> MetricRaise("")] :
                  a \in Arrays1(MaxLen), b \in Arrays1(MaxLen)}
    /\ bk = Bk0

Compute ==
    /\ met.pc = "call"
    /\ met' = [met EXCEPT !.pc = "done",
                          !.res = MetricRegistry_compute(mhandlers, "mse", met.a, met.b)]
    /\ UNCHANGED <<handlers, mhandlers, regLog, mregLog, file, heap, subset, made, last, thr, app, bk, nrm, be, ui>>

NextMse == Compute

SpecMse == InitMse /\ [][NextMse]_vars

(***************************************************************************)
(* The App driven by its user: the handlers bound to its widgets.          *)
(***************************************************************************)
AppMeshes(n) ==
    { d @@ s @@ p :
        d \in FieldChoices("displacement", {Disp3(n)}),
        s \in FieldChoices("stress", {Stress5(n)}),
        p \in FieldChoices("von_mises_stress_pred", {Pred1(n), Pred2(n)}) }

InitApp ==
    /\ InitRegistries
    /\ file \in AppMeshes(NPoints)
    /\ heap = <<file>>
    /\ subset = base
    /\ made = <<"load">>
    /\ nrm = Nrm0
    /\ be = Be0
    /\ ui = Ui0
    /\ last = LastNone
    /\ thr = Thr0
    /\ app = AppInit
    /\ met = Met0
    /\ bk = Bk0

AppStep(a) ==
    /\ app' = a
    /\ UNCHANGED <<handlers, mhandlers, regLog, mregLog, file, heap, subset, made, last, thr, met, bk, nrm, be, ui>>

\* the file entry is typed into, or filled by _browse
SetFile(path) == AppStep([app EXCEPT !.file_var = path, !.ev = NoEvent])
SelectLeft(name) == AppStep([app EXCEPT !.left_var = name, !.ev = NoEvent])
SelectRight(name) ==
    /\ app.combo_right # "disabled"
    /\ AppStep([app EXCEPT !.right_var = name, !.ev = NoEvent])
\* the check button flips its variable and calls its command
ToggleDual == AppStep(_update_dual_state([app EXCEPT !.dual_var = ~@, !.ev = NoEvent]))
ToggleLockClim == AppStep([app EXCEPT !.lock_clim_var = ~@, !.ev = NoEvent])
OnCalcMetric == AppStep(_on_calc_metric(app))
OnStart ==
    /\ Len(app.open_plotters) < MaxPlotters
    /\ AppStep(_on_start(app))
\* the plotters of the App close without raising
CloseAll ==
    AppStep([app EXCEPT
        !.open_plotters = close_all(@, [i \in 1..Len(@) |-> FALSE]).open_plotters,
        !.ev = NoEvent])

NextApp ==
    \/ \E path \in Paths : SetFile(path)
    \/ \E name \in DisplayNames : SelectLeft(name)
    \/ \E name \in DisplayNames : SelectRight(name)
    \/ ToggleDual
    \/ ToggleLockClim
    \/ OnCalcMetric
    \/ OnStart
    \/ CloseAll

SpecApp == InitApp /\ [][NextApp]_vars

(***************************************************************************)
(* PyVistaBackend.show called directly: on two payloads whose scalar       *)
(* arrays are any arrays (SpecClim), and on a base mesh with any node      *)
(* features (SpecBc).                                                      *)
(***************************************************************************)
ClimArrays ==
    Arrays1(MaxLen) \cup {Arr1(<<F(1), F(2), F(3)>>), Arr1(<<F(0), F(5), F(9)>>), Pred2(NPoints)}

BkCall(left, right, grid, show_bc, lock_clim) ==
    [pc |-> "call", left |-> left, right |-> right, grid |-> grid,
     show_bc |-> show_bc, lock_clim |-> lock_clim, res |-> NoShown]

InitClim ==
    /\ InitRegistries
    /\ file = <<>>
    /\ heap = <<file>>
    /\ subset = base
    /\ made = <<"load">>
    /\ nrm = Nrm0
    /\ be = Be0
    /\ ui = Ui0
    /\ last = LastNone
    /\ thr = Thr0
    /\ app = App0
    /\ met = Met0
    /\ bk \in {BkCall(Payload(("s" :> a), "s", "left"), Payload(("s" :> b), "s", "right"),
                      <<>>, FALSE, lock_clim) :
                 a \in ClimArrays, b \in ClimArrays, lock_clim \in BOOLEAN}

\* node features, in units of 1e-11: the load components (columns 3..5) and the
\* restraint components (columns 6..8) of a row
LoadTriples ==
    { <<F(0), F(0), F(0)>>, <<F(5), F(-10), F(0)>>, <<F(0), F(11), F(0)>>,
      <<F(0), F(0), NaN>>, <<PosInf, F(0), F(0)>> }
DofTriples ==
    { <<F(0), F(0), F(0)>>, <<F(10), F(-5), F(0)>>, <<F(0), F(0), F(-11)>>, <<F(0), NaN, F(0)>> }
FeatRows(k) ==
    { <<F(1), F(2), F(3)>> \o l \o d \o [j \in 1..(k - 9) |-> F(99)] : l \in LoadTriples, d \in DofTriples }

\* the n-by-k feature matrices whose rows are drawn from FeatRows(k)
FeatMatrices(n, k) ==
    { Arr2(n, k, [p \in 1..(n * k) |-> rows[((p - 1) \div k) + 1][((p - 1) % k) + 1]]) :
        rows \in [1..n -> FeatRows(k)] }

\* a 2-D matrix of six columns, and a 1-D array, under the name node_features
Feat6(n) == Arr2(n, 6, [p \in 1..(6 * n) |-> F(20)])
Feat1(n) == Arr1([i \in 1..n |-> F(20)])

BcMeshes(n) ==
    { ("solution" :> Sol1(n)) @@ f :
        f \in FieldChoices("node_features",
                           {Feat6(n), Feat1(n)} \cup FeatMatrices(n, 9) \cup FeatMatrices(n, 10)) }

InitBc ==
    /\ InitRegistries
    /\ file \in BcMeshes(NPoints)
    /\ heap = <<file>>
    /\ subset = base
    /\ made = <<"load">>
    /\ nrm = Nrm0
    /\ be = Be0
    /\ ui = Ui0
    /\ last = LastNone
    /\ thr = Thr0
    /\ app = App0
    /\ met = Met0
    /\ bk \in {BkCall(Payload(file, "solution", "left"), right, file, show_bc, FALSE) :
                 right \in {NonePayload, Payload(file, "solution", "right")},
                 show_bc \in BOOLEAN}

Show ==
    /\ bk.pc = "call"
    /\ bk' = [bk EXCEPT !.pc = "done",
                        !.res = show(<<>>, bk.left, bk.right, bk.grid, bk.show_bc, bk.lock_clim)]
    /\ UNCHANGED <<handlers, mhandlers, regLog, mregLog, file, heap, subset, made, last, thr, app, met, nrm, be, ui>>

NextShow == Show

SpecClim == InitClim /\ [][NextShow]_vars
SpecBc == InitBc /\ [][NextShow]_vars

(***************************************************************************)
(* _safe_norm_if_vector called directly: on None, on one-dimensional       *)
(* arrays, on matrices of 0 to 3 columns and on an array of rank 3.        *)
(***************************************************************************)
NormElements == {F(0), F(3), F(4)}
Arrays2(n, k) == {Arr2(n, k, v) : v \in [1..(n * k) -> NormElements]}
NormInputs ==
    {None} \cup Arrays1(MaxLen)
    \cup UNION {Arrays2(n, k) : n \in 0..NPoints, k \in 0..3}
    \cup { [shape |-> <<1, 2, 2>>, v |-> <<F(3), F(4), F(0), F(0)>>],
           Arr2(1, 2, <<NaN, F(3)>>), Arr2(1, 3, <<PosInf, F(0), F(0)>>) }

InitNorm ==
    /\ InitRegistries
    /\ file = <<>>
    /\ heap = <<file>>
    /\ subset = base
    /\ made = <<"load">>
    /\ last = LastNone
    /\ thr = Thr0
    /\ app = App0
    /\ met = Met0
    /\ bk = Bk0
    /\ nrm \in {[pc |-> "call", arr |-> a, res |-> None] : a \in NormInputs}
    /\ be = Be0
    /\ ui = Ui0

Norm ==
    /\ nrm.pc = "call"
    /\ nrm' = [nrm EXCEPT !.pc = "done", !.res = _safe_norm_if_vector(nrm.arr)]
    /\ UNCHANGED <<handlers, mhandlers, regLog, mregLog, file, heap, subset, made, last, thr,
                   app, met, bk, be, ui>>

NextNorm == Norm

SpecNorm == InitNorm /\ [][NextNorm]_vars

(***************************************************************************)
(* PyVistaBackend.show called directly with every combination of right     *)
(* payload, show_bc and lock_clim (SpecShow), and a PyVistaBackend object  *)
(* through any sequence of show and close_all calls (SpecBackend).         *)
(***************************************************************************)
ShowArrays == {Arr1(<<F(0), F(1)>>), Arr1(<<F(3)>>), Arr1(<<NaN>>), Arr1(<<>>)}
ShowGrids(n) ==
    { ("solution" :> Sol1(n)) @@ f :
        f \in FieldChoices("node_features",
                           {Feat6(n), Arr2(n, 9, [p \in 1..(9 * n) |-> F(p % 2)])}) }

InitShow ==
    /\ InitRegistries
    /\ file \in ShowGrids(NPoints)
    /\ heap = <<file>>
    /\ subset = base
    /\ made = <<"load">>
    /\ last = LastNone
    /\ thr = Thr0
    /\ app = App0
    /\ met = Met0
    /\ bk \in {BkCall(Payload(("s" :> a), "s", "left"), right, file, show_bc, lock_clim) :
                 a \in ShowArrays,
                 right \in {NonePayload} \cup {Payload(("r" :> b), "r", "right") : b \in ShowArrays},
                 show_bc \in BOOLEAN, lock_clim \in BOOLEAN}
    /\ nrm = Nrm0
    /\ be = Be0
    /\ ui = Ui0

SpecShow == InitShow /\ [][NextShow]_vars

InitBackend ==
    /\ InitRegistries
    /\ file = ("solution" :> Sol1(NPoints))
    /\ heap = <<file>>
    /\ subset = base
    /\ made = <<"load">>
    /\ last = LastNone
    /\ thr = Thr0
    /\ app = App0
    /\ met = Met0
    /\ bk = Bk0
    /\ nrm = Nrm0
    /\ be = Be0
    /\ ui = Ui0

BeStep(b) ==
    /\ be' = b
    /\ UNCHANGED <<handlers, mhandlers, regLog, mregLog, file, heap, subset, made, last, thr,
                   app, met, bk, nrm, ui>>

\* backend.show(...); closes tells whether close() of the new plotter will raise
BeShow(right_payload, show_bc, closes) ==
    /\ Len(be.open_plotters) < MaxOpen
    /\ LET s == show(be.open_plotters, Payload(file, "solution", "left"), right_payload,
                     file, show_bc, FALSE)
       IN  BeStep([be EXCEPT !.pc = "shown",
                             !.open_plotters = s.open_plotters,
                             !.raises = Append(@, closes),
                             !.hist = Append(@, s.p),
                             !.calls = <<>>])

\* backend.close_all()
BeCloseAll ==
    LET c == close_all(be.open_plotters, be.raises)
    IN  BeStep([be EXCEPT !.pc = "closed",
                          !.open_plotters = c.open_plotters,
                          !.raises = SubSeq(@, 1, Len(c.open_plotters)),
                          !.hist = <<>>,
                          !.calls = c.calls,
                          !.before = Len(be.open_plotters)])

NextBackend ==
    \/ \E right \in {NonePayload, Payload(file, "solution", "right")},
          show_bc \in BOOLEAN, closes \in BOOLEAN : BeShow(right, show_bc, closes)
    \/ BeCloseAll

SpecBackend == InitBackend /\ [][NextBackend]_vars

(***************************************************************************)
(* A UIBuilder over a configuration of one control widget and one target   *)
(* widget with a disable_if condition, side by side or inside a row or a   *)
(* section, and any sequence of writes to its variables.                   *)
(***************************************************************************)
VarNames == { <<"x">>, <<"n", "o", "t", "x">>, <<"d", "o", " ", "n", "o", "t", " ", "x">> }
TargetId == <<"t">>

ControlItems ==
    { Item("checkbox", n, BoolVal(b), NoStr, <<>>) : n \in VarNames, b \in BOOLEAN }
    \cup { Item("entry", n, StrVal(s), NoStr, <<>>) : n \in VarNames, s \in {"", "abc"} }
    \cup { Item("spinbox", n, IntVal(0), NoStr, <<>>) : n \in VarNames }

\* the conditions written for a variable name, and one naming no variable
Conds(n) == { n, NOT_ \o n, <<" ">> \o NOT_ \o n \o <<" ">>, NoStr, <<"z">> }

TargetItems(n) ==
    { Item(t, TargetId, StrVal(""), c, <<>>) :
        t \in {"combobox", "entry", "button", "label"}, c \in Conds(n) }

Configs ==
    UNION { UNION { { <<ctl, tgt>>,
                      <<tgt, ctl>>,
                      <<Item("row", NoStr, BoolVal(FALSE), NoStr, <<ctl, tgt>>)>>,
                      <<ctl, Item("section", NoStr, BoolVal(FALSE), NoStr, <<tgt>>)>> } :
                    tgt \in TargetItems(ctl.id) } :
            ctl \in ControlItems }

WriteValues == {BoolVal(TRUE), BoolVal(FALSE), StrVal(""), StrVal("abc"), IntVal(0), IntVal(5)}

InitUI ==
    /\ InitRegistries
    /\ file = <<>>
    /\ heap = <<file>>
    /\ subset = base
    /\ made = <<"load">>
    /\ last = LastNone
    /\ thr = Thr0
    /\ app = App0
    /\ met = Met0
    /\ bk = Bk0
    /\ nrm = Nrm0
    /\ be = Be0
    /\ ui \in {[pc |-> "config", config |-> c, vars |-> <<>>, widgets |-> <<>>, traces |-> <<>>] :
                 c \in Configs}

UiStep(u) ==
    /\ ui' = u
    /\ UNCHANGED <<handlers, mhandlers, regLog, mregLog, file, heap, subset, made, last, thr,
                   app, met, bk, nrm, be>>

\* UIBuilder(root, config_path)
Construct ==
    /\ ui.pc = "config"
    /\ UiStep(UIBuilder(ui.config))

\* a write to one of the builder's variables, by its widget or by the program
Write(name, val) ==
    /\ ui.pc = "built"
    /\ name \in DOMAIN ui.vars
    /\ val.t = ui.vars[name].t
    /\ UiStep(var_set(ui, name, val))

NextUI ==
    \/ Construct
    \/ \E name \in VarNames \cup {TargetId}, val \in WriteValues : Write(name, val)

SpecUI == InitUI /\ [][NextUI]_vars

(***************************************************************************)
(* Properties.                                                             *)
(***************************************************************************)
NoDuplicates(seq) == \A i, j \in 1..Len(seq) : seq[i] = seq[j] => i = j
Range(seq) == {seq[i] : i \in 1..Len(seq)}

\* C1: after any sequence of register calls each registered key maps to the entry
\* (title and functions) of the most recent register call for it, and keys() lists
\* every registered key exactly once, in ResultRegistry and in MetricRegistry.
C1_LastWriteWins ==
    /\ Range(ResultRegistry_keys(handlers)) = DOMAIN regLog
    /\ NoDuplicates(ResultRegistry_keys(handlers))
    /\ \A k \in DOMAIN regLog :
         /\ ResultRegistry_title(handlers, k) = regLog[k].title
         /\ DictGet(handlers, k).plot = regLog[k].plot
         /\ DictGet(handlers, k).metric = regLog[k].metric
    /\ Range(MetricRegistry_keys(mhandlers)) = DOMAIN mregLog
    /\ NoDuplicates(MetricRegistry_keys(mhandlers))
    /\ \A k \in DOMAIN mregLog :
         /\ MetricRegistry_title(mhandlers, k) = mregLog[k].title
         /\ DictGet(mhandlers, k).fn = mregLog[k].fn

\* a built-in key was re-registered with another entry, new keys were added, and
\* the built-in metric was re-registered under another title
C1_Witness ==
    /\ "ux" \in DOMAIN regLog
    /\ "uy" \in DOMAIN regLog
    /\ regLog["dis"].plot = "_plot_von"
    /\ DictGet(handlers, "dis").plot = "_plot_von"
    /\ Len(handlers) = 5
    /\ mregLog["mse"].title = "Root MSE"

\* C2: after any sequence of extractions against the same base mesh the base mesh
\* holds exactly the fields and values it was loaded with, and every copy holds the
\* loaded fields plus only what the extraction that made it wrote.
C2_BaseUntouched ==
    /\ heap[base] = file
    /\ \A id \in 2..Len(heap) :
         /\ DOMAIN heap[id] \subseteq DOMAIN file \cup Written(made[id])
         /\ \A f \in DOMAIN file \ Written(made[id]) : heap[id][f] = file[f]

\* a displacement plot and then a stress plot, both successful, from the same base
C2_Witness ==
    /\ Len(heap) = 3
    /\ made[2] = "_plot_dis"
    /\ made[3] = "_plot_von"
    /\ "dis_mag" \in DOMAIN heap[2]
    /\ "von" \in DOMAIN heap[3]
    /\ last.ok

C5_MissingFieldFails ==
    (last.op # "none" /\ SourceField(last.fn) \notin DOMAIN file) =>
        /\ ~last.ok
        /\ last.err = "FieldNotFound"
        /\ last.g = 0
        /\ last.scalars = ""
        /\ last.arr = NoArr
        /\ heap[Len(heap)] = file

\* the predicted stress is requested from a mesh that only holds the measured one
C5_Witness ==
    /\ last.op = "plot"
    /\ last.key = "pred"
    /\ last.err = "FieldNotFound"
    /\ "von_mises_stress_pred" \notin DOMAIN file
    /\ "stress" \in DOMAIN file

\* C7: extract_for_metrics either fails or returns a one-dimensional array of
\* exactly as many elements as the mesh has points.
C7_MetricLength ==
    (last.op = "metric" /\ last.ok) =>
        /\ ndim(last.arr) = 1
        /\ last.arr.shape[1] = NPoints

\* C3: under every interleaving of two extractions on the same base mesh and the
\* same Vis_tools object, each extraction ends with the result, or the failure, it
\* has when it runs alone.
C3_ParallelAsAlone ==
    \A t \in Threads : thr[t].pc = "done" => thr[t].out = Alone(thr[t].fn)

AllFinite(arr) == \A i \in 1..Len(arr.v) : arr.v[i].fin

\* the sum over every index i of (a[i] - b[i])^2
SquaredDifferences(a, b) ==
    LET RECURSIVE Upto(_)
        Upto(n) == IF n = 0 THEN 0
                   ELSE Upto(n - 1) + (a.v[n].x - b.v[n].x) * (a.v[n].x - b.v[n].x)
    IN  Upto(Len(a.v))

\* C8: for one-dimensional arrays of different lengths, also when one has length
\* 1 or 0, compute("mse", a, b) fails with the shape-mismatch error.
C8_MismatchError ==
    (met.pc = "done" /\ Len(met.a.v) # Len(met.b.v)) =>
        ~met.res.ok /\ met.res.err = "ShapeMismatch"

\* C10 as stated: for all equal-length arrays of finite elements compute("mse",
\* a, b) returns sum((a[i]-b[i])^2) / len(a).
C10_MeanOfSquares ==
    (met.pc = "done" /\ Len(met.a.v) = Len(met.b.v) /\ AllFinite(met.a) /\ AllFinite(met.b)) =>
        /\ met.res.ok
        /\ met.res.den # 0
        /\ met.res.num * Len(met.a.v) = SquaredDifferences(met.a, met.b) * met.res.den

\* C10 as amended: for all non-empty equal-length arrays of finite elements
\* compute("mse", a, b) returns sum((a[i]-b[i])^2) / len(a); for two empty arrays
\* it fails with the no-valid-data error.
C10_MeanOfSquaresNonEmpty ==
    (met.pc = "done" /\ Len(met.a.v) = Len(met.b.v) /\ AllFinite(met.a) /\ AllFinite(met.b)) =>
        IF Len(met.a.v) = 0
        THEN ~met.res.ok /\ met.res.err = "NoValidData"
        ELSE /\ met.res.ok
             /\ met.res.den # 0
             /\ met.res.num * Len(met.a.v) = SquaredDifferences(met.a, met.b) * met.res.den

\* the mean squared error of [0, 3] and [1, 0] is (1 + 9) / 2
C10_Witness ==
    /\ met.pc = "done"
    /\ met.a = Arr1(<<F(0), F(3)>>)
    /\ met.b = Arr1(<<F(1), F(0)>>)
    /\ met.res.ok
    /\ met.res.num = 10
    /\ met.res.den = 2

\* the plot handler of key cannot find its source field in mesh
SourceMissing(key, mesh) == SourceField(DictGet(handlers, key).plot) \notin DOMAIN mesh
\* the scalar field under which the built-in plot handler of key returns its result
ScalarOf(key) == IF key = "dis" THEN "dis_mag" ELSE key

\* C6: in _on_start with dual view on, when exactly one side's source field is
\* missing, the side whose field is present is handed to the backend and shown,
\* whichever side is the missing one.
C6_SiblingStillShown ==
    (/\ app.ev.h = "start"
     /\ app.ev.dual
     /\ SourceMissing(app.ev.left_key, app.ev.loaded) # SourceMissing(app.ev.right_key, app.ev.loaded)) =>
        LET present == IF SourceMissing(app.ev.left_key, app.ev.loaded)
                       THEN app.ev.right_key ELSE app.ev.left_key
        IN  /\ app.ev.showed
            /\ \E i \in 1..Len(app.ev.plotter.panes) :
                   app.ev.plotter.panes[i].scalars = ScalarOf(present)

\* C9: in _on_calc_metric Metrics.compute is invoked only after both arrays were
\* extracted and their shapes found equal; when the shapes differ the result label
\* shows the size mismatch with both shapes and compute is not called.
C9_ComputeAfterChecks ==
    app.ev.h = "calc" =>
        /\ app.ev.computed => (app.ev.extracted /\ app.ev.sa = app.ev.sb)
        /\ (app.ev.extracted /\ app.ev.sa # app.ev.sb) =>
               /\ ~app.ev.computed
               /\ app.mse_var = Label("mismatch", 0, app.ev.sa, app.ev.sb)

\* the measured stress, one value per point, is compared with a two-column
\* predicted stress
C9_Witness ==
    /\ app.ev.h = "calc"
    /\ app.ev.left_key = "von"
    /\ app.ev.right_key = "pred"
    /\ app.ev.extracted
    /\ app.ev.sa = <<NPoints>>
    /\ app.ev.sb = <<2 * NPoints>>
    /\ app.mse_var.kind = "mismatch"

\* the indices at which both arrays hold a finite value
Kept(a, b) == {i \in 1..Len(a.v) : a.v[i].fin /\ b.v[i].fin}
IsAll(arr, e) == \A i \in 1..Len(arr.v) : arr.v[i] = e

\* C11: for two arrays of one length, compute("mse", a, b) fails with the
\* no-valid-data error exactly when no index has both values finite; so it fails
\* this way when every element of a, or every element of b, is NaN.
C11_NoValidDataIff ==
    (met.pc = "done" /\ Len(met.a.v) = Len(met.b.v)) =>
        /\ (~met.res.ok /\ met.res.err = "NoValidData") <=> (Kept(met.a, met.b) = {})
        /\ (IsAll(met.a, NaN) \/ IsAll(met.b, NaN)) => (~met.res.ok /\ met.res.err = "NoValidData")

\* every element of b is NaN while a is finite, and compute refused
C11_Witness ==
    /\ met.pc = "done"
    /\ met.a = Arr1(<<F(0), F(1)>>)
    /\ met.b = Arr1(<<NaN, NaN>>)
    /\ ~met.res.ok
    /\ met.res.err = "NoValidData"

\* the sum of (a[i] - b[i])^2 over the indices in s
SquaredDifferencesOver(a, b, s) ==
    LET RECURSIVE Upto(_)
        Upto(n) == IF n = 0 THEN 0
                   ELSE Upto(n - 1) + (IF n \in s THEN (a.v[n].x - b.v[n].x) * (a.v[n].x - b.v[n].x)
                                       ELSE 0)
    IN  Upto(Len(a.v))

\* C12: for two arrays of one length, some elements not finite, _mse keeps exactly
\* the indices at which both values are finite: the two filtered arrays have one
\* length, the shape-mismatch error after masking is never raised, and the result
\* is the mean of the squared differences over the kept indices only.
C12_MaskedMean ==
    (met.pc = "done" /\ Len(met.a.v) = Len(met.b.v)) =>
        LET mask == And(isfinite(met.a), isfinite(met.b)) IN
        /\ Len(Masked(met.a, mask).v) = Cardinality(Kept(met.a, met.b))
        /\ Len(Masked(met.b, mask).v) = Cardinality(Kept(met.a, met.b))
        /\ met.res.err # "ShapeMismatch"
        /\ Kept(met.a, met.b) # {} =>
               /\ met.res.ok
               /\ met.res.den = Cardinality(Kept(met.a, met.b))
               /\ met.res.num = SquaredDifferencesOver(met.a, met.b, Kept(met.a, met.b))

\* index 2 is dropped because a holds +Infinity there: the result is (0 - 3)^2 / 1
C12_Witness ==
    /\ met.pc = "done"
    /\ met.a = Arr1(<<F(0), PosInf>>)
    /\ met.b = Arr1(<<F(3), F(1)>>)
    /\ met.res.ok
    /\ met.res.num = 9
    /\ met.res.den = 1

\* the values of both scalar arrays of the call that are no NaN
BothNotNaN == NotNaN(bk.left.mesh["s"].v) \cup NotNaN(bk.right.mesh["s"].v)
LeastOf(s) == CHOOSE m \in s : \A y \in s : ~Less(y, m)
GreatestOf(s) == CHOOSE m \in s : \A y \in s : ~Less(m, y)
\* the colour range show gave to its left pane
ClimOf(res) == res.p.panes[1].clim

\* C13: with lock_clim on, the colour range of both panes is (vmin, vmax), vmin the
\* least and vmax the greatest value of both arrays that is no NaN, when both are
\* finite and vmax > vmin (and neither array is empty); otherwise it is None.
C13_SharedRange ==
    (bk.pc = "done" /\ bk.lock_clim /\ bk.res.raised = "") =>
        LET clim == ClimOf(bk.res)
            ranged == /\ Len(bk.left.mesh["s"].v) > 0
                      /\ Len(bk.right.mesh["s"].v) > 0
                      /\ BothNotNaN # {}
                      /\ LeastOf(BothNotNaN).fin
                      /\ GreatestOf(BothNotNaN).fin
                      /\ GreatestOf(BothNotNaN).x > LeastOf(BothNotNaN).x
        IN  /\ bk.res.p.panes[2].clim = clim
            /\ clim.set <=> ranged
            /\ clim.set => (clim.vmin = LeastOf(BothNotNaN) /\ clim.vmax = GreatestOf(BothNotNaN))
            /\ ~clim.set => clim = NoClim

\* unify([1,2,3], [0,5,9]) = (0, 9)
C13_Witness ==
    /\ bk.pc = "done"
    /\ bk.lock_clim
    /\ bk.left.mesh["s"] = Arr1(<<F(1), F(2), F(3)>>)
    /\ bk.right.mesh["s"] = Arr1(<<F(0), F(5), F(9)>>)
    /\ ClimOf(bk.res).set
    /\ ClimOf(bk.res).vmin = F(0)
    /\ ClimOf(bk.res).vmax = F(9)

\* C14: for every pair of scalar arrays, empty ones, all-NaN ones and ones holding
\* infinities included, show raises nothing: the colour range ends as None or as a
\* finite pair vmin < vmax, both panes are drawn and the plotter is kept.
C14_ClimNeverRaises ==
    bk.pc = "done" =>
        /\ bk.res.raised = ""
        /\ Len(bk.res.open_plotters) = 1
        /\ Len(bk.res.p.panes) = 2
        /\ bk.res.p.panes[1].kind = "left"
        /\ bk.res.p.panes[2].kind = "right"
        /\ \/ ClimOf(bk.res) = NoClim
           \/ /\ ClimOf(bk.res).set
              /\ ~ClimOf(bk.res).raised
              /\ ClimOf(bk.res).vmin.fin
              /\ ClimOf(bk.res).vmax.fin
              /\ ClimOf(bk.res).vmin.x < ClimOf(bk.res).vmax.x

\* an empty array against one of +Infinity and NaN: np.nanmin raised inside the
\* try block, the range is None and both panes are there
C14_Witness ==
    /\ bk.pc = "done"
    /\ bk.lock_clim
    /\ bk.left.mesh["s"] = Arr1(<<>>)
    /\ bk.right.mesh["s"] = Arr1(<<PosInf, NaN>>)
    /\ bk.res.raised = ""
    /\ ClimOf(bk.res) = NoClim
    /\ Len(bk.res.p.panes) = 2

\* the boundary pane of the plotter show built: its last pane
BoundaryOf(res) == res.p.panes[Len(res.p.panes)]
Features == bk.grid["node_features"]

\* C15: the boundary pane reports insufficient data, raises nothing and marks no
\* node when the mesh has no node_features field, or the field is not 2-D, or it
\* has fewer than 9 columns; a 2-D field of 9 or more columns is always classified.
C15_InsufficientData ==
    (bk.pc = "done" /\ bk.show_bc) =>
        /\ bk.res.raised = ""
        /\ BoundaryOf(bk.res).kind = "boundary"
        /\ IF "node_features" \in DOMAIN bk.grid /\ Len(Features.shape) = 2 /\ Features.shape[2] >= 9
           THEN /\ BoundaryOf(bk.res).classified
                /\ BoundaryOf(bk.res).title = "Boundary"
           ELSE /\ ~BoundaryOf(bk.res).classified
                /\ BoundaryOf(bk.res).title = "Boundary (insufficient data)"
                /\ BoundaryOf(bk.res).load_pts = {}
                /\ BoundaryOf(bk.res).fixed_pts = {}

\* a feature matrix of six columns
C15_Witness ==
    /\ bk.pc = "done"
    /\ bk.show_bc
    /\ "node_features" \in DOMAIN bk.grid
    /\ Features.shape = <<NPoints, 6>>
    /\ BoundaryOf(bk.res).title = "Boundary (insufficient data)"
    /\ ~BoundaryOf(bk.res).classified

\* |x| > 1e-10 and |x| <= 1e-10 as comparisons of floats: both false for NaN
AbsAbove(x) == IF x.fin THEN (x.x > tol \/ -x.x > tol) ELSE x # NaN
AbsWithin(x) == x.fin /\ x.x <= tol /\ -x.x <= tol
Classified == bk.pc = "done" /\ bk.show_bc /\ BoundaryOf(bk.res).classified
Nodes == 0..(Features.shape[1] - 1)

\* C16 as stated: node i is in load_points iff one of columns 3,4,5 of row i has
\* absolute value above the tolerance, and in fixed_points iff all of columns 6,7,8
\* have absolute value within the tolerance.
C16_LoadAboveTolerance ==
    Classified =>
        \A i \in Nodes :
            /\ i \in BoundaryOf(bk.res).load_pts <=> \E j \in 3..5 : AbsAbove(At(Features, i, j))
            /\ i \in BoundaryOf(bk.res).fixed_pts <=> \A j \in 6..8 : AbsWithin(At(Features, i, j))

\* C16 as amended: node i is in load_points iff one of columns 3,4,5 of row i is
\* not within the tolerance of zero (absolute value above it, or NaN), and in
\* fixed_points iff all of columns 6,7,8 are within the tolerance; the two tests are
\* independent.
C16_LoadNotWithinTolerance ==
    Classified =>
        \A i \in Nodes :
            /\ i \in BoundaryOf(bk.res).load_pts <=> \E j \in 3..5 : ~AbsWithin(At(Features, i, j))
            /\ i \in BoundaryOf(bk.res).fixed_pts <=> \A j \in 6..8 : AbsWithin(At(Features, i, j))

\* node 0 has a load and no restraint and is in both sets; node 1 has no load and
\* a restraint and is in neither
C16_Witness ==
    /\ Classified
    /\ Features.shape = <<NPoints, 9>>
    /\ At(Features, 0, 4) = F(11)
    /\ \A j \in 6..8 : At(Features, 0, j) = F(0)
    /\ \A j \in 3..5 : At(Features, 1, j) = F(0)
    /\ At(Features, 1, 8) = F(-11)
    /\ 0 \in BoundaryOf(bk.res).load_pts \cap BoundaryOf(bk.res).fixed_pts
    /\ 1 \notin BoundaryOf(bk.res).load_pts \cup BoundaryOf(bk.res).fixed_pts

\* the observable an extraction produced: the scalar field of the returned mesh
\* for a plot, the returned array for a metric
Observable == IF last.op = "plot" THEN heap[last.g][last.scalars] ELSE last.arr
\* the sum of the squares of row i (counted from 1) of a two-dimensional array
RowSumSq(arr, i) ==
    LET RECURSIVE Upto(_)
        Upto(k) == IF k = 0 THEN 0
                   ELSE Upto(k - 1) + At(arr, i - 1, k - 1).x * At(arr, i - 1, k - 1).x
    IN  Upto(arr.shape[2])
\* e is the non-negative square root of s
IsRootOf(e, s) ==
    /\ e.fin
    /\ IF "root" \in DOMAIN e THEN e.x = s ELSE e.x >= 0 /\ e.x * e.x = s

\* C17: for a displacement field of shape (N,3) the displacement observable, the
\* 'dis_mag' field of the plot payload as well as the metric array, has shape (N,)
\* and its i-th value is the Euclidean norm of row i; for a one-dimensional
\* displacement field it is that field unchanged.
C17_DisplacementNorm ==
    (last.fn \in {"_plot_dis", "_metric_dis"} /\ "displacement" \in DOMAIN file) =>
        /\ last.ok
        /\ last.op = "plot" => last.scalars = "dis_mag"
        /\ IF Len(file["displacement"].shape) = 2
           THEN /\ Observable.shape = <<NPoints>>
                /\ Len(Observable.v) = NPoints
                /\ \A i \in 1..NPoints : IsRootOf(Observable.v[i], RowSumSq(file["displacement"], i))
           ELSE Observable = file["displacement"]

\* the rows (1,2,2) and (2,4,4) have the norms 3 and 6
C17_Witness ==
    /\ last.fn = "_plot_dis"
    /\ last.ok
    /\ file["displacement"] = Disp3(NPoints)
    /\ heap[last.g]["dis_mag"].shape = <<NPoints>>
    /\ heap[last.g]["dis_mag"].v[1] = F(3)
    /\ heap[last.g]["dis_mag"].v[2] = F(6)

\* C18: the measured-stress observable is column 4 of the 'stress' array, point by
\* point, and the extraction fails when 'stress' has fewer than 5 columns.
C18_VonIsColumn4 ==
    (last.fn \in {"_plot_von", "_metric_von"} /\ "stress" \in DOMAIN file) =>
        LET stress == file["stress"] IN
        IF Len(stress.shape) = 2 /\ stress.shape[2] >= 5
        THEN /\ last.ok
             /\ last.op = "plot" => last.scalars = "von"
             /\ Observable.shape = <<NPoints>>
             /\ \A i \in 1..NPoints : Observable.v[i] = stress.v[(i - 1) * stress.shape[2] + 5]
        ELSE /\ ~last.ok
             /\ last.err = "IndexError"

\* the metric array of 'von' on a five-column stress field whose column 4 holds 11, 12
C18_Witness ==
    /\ last.fn = "_metric_von"
    /\ last.ok
    /\ file["stress"] = Stress5(NPoints)
    /\ last.arr.v[1] = F(11)
    /\ last.arr.v[2] = F(12)

\* what an extraction hands back, and the world it leaves
Handed(r) ==
    [ok |-> r.ok, err |-> r.err, g |-> r.g, scalars |-> r.scalars, title |-> r.title, arr |-> r.arr]

\* C19: every extraction through the registry, for a key registered after start-up
\* as for a built-in one, calls the function most recently registered for the key
\* with (vis, base) and returns its result, or raises its failure, unchanged.
C19_DispatchAsRegistered ==
    [][last' # last =>
          LET fn == IF last'.op = "plot" THEN regLog[last'.key].plot ELSE regLog[last'.key].metric
              r == Call(fn, [heap |-> heap, subset |-> subset], base)
          IN  /\ Handed(last') = Handed(r)
              /\ heap' = r.w.heap
              /\ subset' = r.w.subset]_vars

\* the key 'ux', registered after start-up with the stress handlers, is plotted
C19_Witness ==
    /\ last.op = "plot"
    /\ last.key = "ux"
    /\ "ux" \in DOMAIN regLog
    /\ regLog["ux"].plot = "_plot_von"
    /\ last.ok
    /\ last.scalars = "von"
    /\ last.title = "Von Mises stress"

IsVectorField(arr) == arr # None /\ Len(arr.shape) = 2 /\ arr.shape[2] > 1
AllFiniteRow(arr, i) == \A j \in 0..(arr.shape[2] - 1) : At(arr, i - 1, j).fin

\* C21: _safe_norm_if_vector changes its input only when it has rank 2 and more
\* than one column, and then returns the Euclidean norm of each row; None gives
\* None; a one-dimensional input and a matrix of exactly one column come back
\* unchanged with their shape.  So the output is one-dimensional iff the input is
\* one-dimensional or a matrix of more than one column.
C21_NormOnlyForMatrices ==
    nrm.pc = "done" =>
        /\ nrm.arr = None => nrm.res = None
        /\ (nrm.arr # None /\ ~IsVectorField(nrm.arr)) => nrm.res = nrm.arr
        /\ IsVectorField(nrm.arr) =>
               /\ nrm.res # nrm.arr
               /\ nrm.res.shape = <<nrm.arr.shape[1]>>
               /\ Len(nrm.res.v) = nrm.arr.shape[1]
               /\ \A i \in 1..nrm.arr.shape[1] :
                      AllFiniteRow(nrm.arr, i) => IsRootOf(nrm.res.v[i], RowSumSq(nrm.arr, i))
        /\ nrm.arr # None =>
               (Len(nrm.res.shape) = 1 <=> (Len(nrm.arr.shape) = 1 \/ IsVectorField(nrm.arr)))

\* a matrix of one column comes back as it went in, still of shape (N,1)
C21_Witness ==
    /\ nrm.pc = "done"
    /\ nrm.arr # None
    /\ nrm.arr.shape = <<NPoints, 1>>
    /\ nrm.res = nrm.arr
    /\ nrm.res.shape = <<NPoints, 1>>

\* C22: show computes a shared colour range only when lock_clim is true and a
\* right payload exists; in every other case every pane gets the range None; and
\* whenever a range is set the left and the right pane get the same pair.
C22_RangeOnlyWhenLocked ==
    (bk.pc = "done" /\ bk.res.raised = "") =>
        LET panes == bk.res.p.panes IN
        /\ ~(bk.lock_clim /\ bk.right.has) => \A i \in 1..Len(panes) : panes[i].clim = NoClim
        /\ (\E i \in 1..Len(panes) : panes[i].clim.set) => (bk.lock_clim /\ bk.right.has)
        /\ bk.right.has => panes[2].clim = panes[1].clim
        /\ \A i \in 1..Len(panes) : panes[i].kind = "boundary" => panes[i].clim = NoClim

\* lock_clim on with two payloads: both panes got the range (0, 3)
C22_Witness ==
    /\ bk.pc = "done"
    /\ bk.lock_clim
    /\ bk.right.has
    /\ bk.res.p.panes[1].clim.set
    /\ bk.res.p.panes[1].clim.vmin = F(0)
    /\ bk.res.p.panes[1].clim.vmax = F(3)
    /\ bk.res.p.panes[2].clim = bk.res.p.panes[1].clim

\* C23: the plotter of show has 1 + (1 if a right payload exists) + (1 if show_bc)
\* columns, and the panes select the columns 0..cols-1 once each, in the order
\* left, right, boundary.
C23_ColumnsInOrder ==
    (bk.pc = "done" /\ bk.res.raised = "") =>
        LET p == bk.res.p
            n == 1 + (IF bk.right.has THEN 1 ELSE 0) + (IF bk.show_bc THEN 1 ELSE 0)
        IN  /\ p.cols = n
            /\ Len(p.panes) = n
            /\ \A i \in 1..Len(p.panes) : p.panes[i].col = i - 1
            /\ p.panes[1].kind = "left"
            /\ bk.right.has => p.panes[2].kind = "right"
            /\ bk.show_bc => p.panes[n].kind = "boundary"
            /\ \A i \in 1..Len(p.panes) :
                   p.panes[i].kind \in {"left"} \cup (IF bk.right.has THEN {"right"} ELSE {})
                                       \cup (IF bk.show_bc THEN {"boundary"} ELSE {})

\* no right payload and show_bc on: two columns, the boundary pane in column 1
C23_Witness ==
    /\ bk.pc = "done"
    /\ ~bk.right.has
    /\ bk.show_bc
    /\ bk.res.p.cols = 2
    /\ bk.res.p.panes[2].kind = "boundary"
    /\ bk.res.p.panes[2].col = 1

\* C24: open_plotters holds exactly the plotters show created since the last
\* close_all, in the order of their creation; close_all ends with open_plotters
\* empty after one close() call on every plotter that was open, whether or not
\* some of these calls raised.
C24_OpenPlottersTracked ==
    /\ Len(be.open_plotters) = Len(be.hist)
    /\ \A i \in 1..Len(be.hist) : be.open_plotters[i] = [cols |-> be.hist[i].cols]
    /\ be.pc = "closed" =>
           /\ be.open_plotters = <<>>
           /\ Len(be.calls) = be.before
           /\ \A k \in 1..be.before : Cardinality({j \in 1..Len(be.calls) : be.calls[j].p = k}) = 1

\* three plotters were open; the first close() raised and the other two plotters
\* were closed all the same
C24_Witness ==
    /\ be.pc = "closed"
    /\ be.before = 3
    /\ be.calls[1].raised
    /\ ~be.calls[2].raised
    /\ Len(be.calls) = 3
    /\ be.open_plotters = <<>>

\* C25: in the App, whenever the dual-view check button is off the metric label
\* shows the placeholder and the right combobox is disabled, and whenever it is on
\* the right combobox is readonly; a press of the metric button while dual view is
\* off loads no file, extracts and computes nothing and leaves the label alone.
C25_DualStateConsistent ==
    /\ ~app.dual_var => (app.mse_var = Dash /\ app.combo_right = "disabled")
    /\ app.dual_var => app.combo_right = "readonly"
    /\ (app.ev.h = "calc" /\ ~app.ev.dual) =>
           /\ app.ev.loaded = <<>>
           /\ ~app.ev.extracted
           /\ ~app.ev.computed
           /\ app.ev.box = Box("info", "hint")
           /\ app.mse_var = Dash

\* the metric button was pressed with dual view off and an existing file chosen
C25_Witness ==
    /\ app.ev.h = "calc"
    /\ ~app.ev.dual
    /\ ~app.dual_var
    /\ app.file_var = "mesh.vtk"
    /\ file # <<>>
    /\ app.mse_var = Dash
    /\ app.combo_right = "disabled"

\* the widgets' items of a configuration: the items that are no row or section,
\* and the children of those that are
Leaves(items) ==
    UNION { IF items[i].type \in {"row", "section"}
            THEN {items[i].children[j] : j \in 1..Len(items[i].children)}
            ELSE {items[i]} : i \in 1..Len(items) }
\* the condition of item is 'X' for an existing variable X
NamesPlain(item) == str_strip(item.cond) \in DOMAIN ui.vars
\* the condition of item is 'not X' for an existing variable X
NegatedName(item) == str_strip(SubSeq(str_strip(item.cond), 5, Len(str_strip(item.cond))))
NamesNegated(item) ==
    /\ ~NamesPlain(item)
    /\ startswith(str_strip(item.cond), NOT_)
    /\ NegatedName(item) \in DOMAIN ui.vars

\* C26: for every widget with an id and a disable_if condition naming an existing
\* variable, after construction and after every write to the variable, the widget
\* is disabled iff the variable is true (condition 'X') or false (condition
\* 'not X'), and otherwise it is readonly if a combobox and normal if not.
C26_DisabledIffCondition ==
    ui.pc = "built" =>
        \A item \in Leaves(ui.config) :
            (item.id # NoStr /\ item.id \in DOMAIN ui.widgets /\ item.cond # NoStr
             /\ (NamesPlain(item) \/ NamesNegated(item))) =>
                LET disabled == IF NamesPlain(item) THEN Truthy(ui.vars[str_strip(item.cond)])
                                ELSE ~Truthy(ui.vars[NegatedName(item)])
                IN  ui.widgets[item.id].state =
                        IF disabled THEN "disabled"
                        ELSE IF item.type = "combobox" THEN "readonly" ELSE "normal"

====
